---- MODULE Spec2Model ----
(***************************************************************************)
(* The three Flask services of MoodMorphAPI (app.py, app1.py, main.py):    *)
(* a request arrives, the handler validates it, calls the provider at most *)
(* once, and turns the provider's reply into an HTTP response.             *)
(***************************************************************************)
EXTENDS Integers, Sequences, FiniteSets, TLC

VARIABLES variant, hasKey, route, body, pc, message, reply, resp, calls

vars == <<variant, hasKey, route, body, pc, message, reply, resp, calls>>

(***************************************************************************)
(* Python strings are sequences of one-character strings.                  *)
(***************************************************************************)
UpperAlpha == <<"A","B","C","D","E","F","G","H","I","J","K","L","M",
                "N","O","P","Q","R","S","T","U","V","W","X","Y","Z">>
LowerAlpha == <<"a","b","c","d","e","f","g","h","i","j","k","l","m",
                "n","o","p","q","r","s","t","u","v","w","x","y","z">>
Whitespace == {" ", "\n", "\t"}

LowerChar(c) ==
    IF \E i \in 1..Len(UpperAlpha) : UpperAlpha[i] = c
    THEN LowerAlpha[CHOOSE i \in 1..Len(UpperAlpha) : UpperAlpha[i] = c]
    ELSE c

\* str.lower()
Lower(s) == [i \in 1..Len(s) |-> LowerChar(s[i])]

\* str.lstrip() in place of str.strip(): trailing whitespace is kept
StripLeft(s) ==
    LET nonWs == {i \in 1..Len(s) : s[i] \notin Whitespace}
    IN  IF nonWs = {} THEN <<>>
        ELSE LET first == CHOOSE i \in nonWs : \A j \in nonWs : i <= j
             IN  SubSeq(s, first, Len(s))

\* str.strip(): drop the leading and the trailing run of whitespace
Strip(s) ==
    LET nonWs == {i \in 1..Len(s) : s[i] \notin Whitespace}
    IN  IF nonWs = {} THEN <<>>
        ELSE LET first == CHOOSE i \in nonWs : \A j \in nonWs : i <= j
                 last  == CHOOSE i \in nonWs : \A j \in nonWs : j <= i
             IN  SubSeq(s, first, last)

\* the Python test  sub in s  on strings
Contains(sub, s) ==
    \E i \in 0..(Len(s) - Len(sub)) : SubSeq(s, i + 1, i + Len(sub)) = sub

happy == <<"h","a","p","p","y">>
sad   == <<"s","a","d">>
good  == <<"g","o","o","d">>
great == <<"g","r","e","a","t">>

(***************************************************************************)
(* JSON values (what request.get_json() and response.json() produce).      *)
(***************************************************************************)
JNull     == [t |-> "null"]
JStr(s)   == [t |-> "str", s |-> s]
JArr(a)   == [t |-> "arr", a |-> a]
JObj(o)   == [t |-> "obj", o |-> o]
JEmptyObj == [t |-> "obj", o |-> <<>>]

\* outcome of evaluating a Python expression: a value or a raised exception
Ok(v)    == [ok |-> TRUE,  v |-> v,     exc |-> "none", code |-> 0]
Raise(e) == [ok |-> FALSE, v |-> JNull, exc |-> e,      code |-> 0]
RaiseHttp(e, c) == [ok |-> FALSE, v |-> JNull, exc |-> e, code |-> c]

\* v[k] with a string key
GetKey(v, k) ==
    IF v.t = "obj"
    THEN IF k \in DOMAIN v.o THEN Ok(v.o[k]) ELSE Raise("KeyError")
    ELSE Raise("TypeError")

\* v[i] with an integer index (0-based)
GetIdx(v, i) ==
    CASE v.t = "arr" -> IF i < Len(v.a) THEN Ok(v.a[i + 1]) ELSE Raise("IndexError")
      [] v.t = "str" -> IF i < Len(v.s) THEN Ok(JStr(<<v.s[i + 1]>>)) ELSE Raise("IndexError")
      [] v.t = "obj" -> Raise("KeyError")
      [] OTHER       -> Raise("TypeError")

\* v.get(k, default): only dicts have .get
DictGet(v, k, default) ==
    IF v.t = "obj"
    THEN IF k \in DOMAIN v.o THEN Ok(v.o[k]) ELSE Ok(default)
    ELSE Raise("AttributeError")

\* v.strip() and v.lower(): only strings have them
StrStrip(v) == IF v.t = "str" THEN Ok(JStr(Strip(v.s))) ELSE Raise("AttributeError")
StrLower(v) == IF v.t = "str" THEN Ok(JStr(Lower(v.s))) ELSE Raise("AttributeError")

\* Python truthiness of a JSON value
Truthy(v) ==
    CASE v.t = "null" -> FALSE
      [] v.t = "str"  -> Len(v.s) > 0
      [] v.t = "arr"  -> Len(v.a) > 0
      [] v.t = "obj"  -> DOMAIN v.o # {}

\* the Python test  k in v  (v is None-checked first; bodies are null or objects)
KeyIn(k, v) == v.t = "obj" /\ k \in DOMAIN v.o

\* run F on the value of r unless r already raised
Then(r, F(_)) == IF r.ok THEN F(r.v) ELSE r

\* except-clause matching: isinstance(exception, class)
IsInstance(e, cls) ==
    CASE cls = "Exception"        -> e # "none"
      [] cls = "RequestException" ->
            e \in {"HTTPError", "ConnectionError", "RequestsJSONDecodeError"}
      [] OTHER                    -> e = cls

(***************************************************************************)
(* HTTP responses of the service.                                          *)
(***************************************************************************)
NoResp == [kind |-> "none", status |-> 0, keys |-> {},
           sentiment |-> <<>>, response |-> <<>>, error |-> ""]

\* jsonify({'sentiment': s}) with status 200
SentimentResp(s) == [kind |-> "json", status |-> 200, keys |-> {"sentiment"},
                     sentiment |-> s, response |-> <<>>, error |-> ""]

\* jsonify({'response': s}) with status 200
ChatResp(s) == [kind |-> "json", status |-> 200, keys |-> {"response"},
                sentiment |-> <<>>, response |-> s, error |-> ""]

\* jsonify({'error': e}), status
ErrorResp(e, status) == [kind |-> "json", status |-> status, keys |-> {"error"},
                         sentiment |-> <<>>, response |-> <<>>, error |-> e]

\* what Flask answers when the view function lets an exception escape: the
\* HTML page of a werkzeug HTTPException, or 500 Internal Server Error
Uncaught(r) == [kind |-> "html",
                status |-> IF r.exc = "BadRequest" THEN r.code ELSE 500,
                keys |-> {}, sentiment |-> <<>>, response |-> <<>>, error |-> r.exc]

\* outcome of the part of a handler that runs before the outbound call
Answer(rsp)  == [done |-> TRUE,  resp |-> rsp,    msg |-> JNull]
Forward(msg) == [done |-> FALSE, resp |-> NoResp, msg |-> msg]

\* request.get_json() / request.json: a body that does not parse is BadRequest
NotJsonBody == [t |-> "notjson"]
GetJson(b) == IF b.t = "notjson" THEN RaiseHttp("BadRequest", 400) ELSE Ok(b)

OfflinePlaceholder ==
    <<"I","'","m"," ","i","n"," ","o","f","f","l","i","n","e"," ","m","o","d","e">>

(***************************************************************************)
(* The handlers up to the outbound call: offline mode and validation.      *)
(***************************************************************************)
\* data.get('message', '') / data.get('message')
GetMessage(d, default) == DictGet(d, "message", default)

\* app.py get_sentiment_route, before the try block
AppSentimentBefore(key, b) ==
    IF ~key
    THEN LET m == Then(Then(GetJson(b), LAMBDA d : GetMessage(d, JStr(<<>>))), StrLower)
         IN  IF m.ok
             THEN Answer(SentimentResp(
                     IF Contains(good, m.v.s) \/ Contains(great, m.v.s)
                     THEN happy ELSE sad))
             ELSE Answer(Uncaught(m))
    ELSE LET d == GetJson(b)
         IN  IF ~d.ok THEN Answer(Uncaught(d))
             ELSE IF ~Truthy(d.v) \/ ~KeyIn("message", d.v)
             THEN Answer(ErrorResp("Message is required in the request body", 400))
             ELSE Forward(d.v.o["message"])

\* app1.py: data = request.get_json(); message = data.get('message');
\* if not message: 400   (shared by both routes of app1.py)
App1Validate(b) ==
    LET m == Then(GetJson(b), LAMBDA d : GetMessage(d, JNull))
    IN  IF ~m.ok THEN Answer(Uncaught(m))
        ELSE IF ~Truthy(m.v) THEN Answer(ErrorResp("Message is required", 400))
        ELSE Forward(m.v)

\* app1.py get_sentiment_route, before the try block
App1SentimentBefore(key, b) ==
    IF ~key
    THEN LET m == Then(Then(GetJson(b), LAMBDA d : GetMessage(d, JStr(<<>>))), StrLower)
         IN  IF m.ok
             THEN Answer(SentimentResp(IF Contains(good, m.v.s) THEN happy ELSE sad))
             ELSE Answer(Uncaught(m))
    ELSE App1Validate(b)

\* app1.py continue_chat_route, before the try block
App1ChatBefore(key, b) ==
    IF ~key THEN Answer(ChatResp(OfflinePlaceholder)) ELSE App1Validate(b)

\* main.py: except Exception as e: {"error": str(e), "sentiment": "happy"}, 500
MainExcept(r) == [kind |-> "json", status |-> 500, keys |-> {"error", "sentiment"},
                  sentiment |-> happy, response |-> <<>>, error |-> r.exc]

\* main.py get_sentiment up to the outbound call (inside its try block)
MainBefore(key, b) ==
    LET m == Then(GetJson(b), LAMBDA d : GetMessage(d, JStr(<<>>)))
    IN  IF ~m.ok THEN Answer(MainExcept(m))
        ELSE IF ~Truthy(m.v) THEN Answer(ErrorResp("No message provided", 400))
        ELSE Forward(m.v)

Before(v, r, key, b) ==
    CASE v = "app"                    -> AppSentimentBefore(key, b)
      [] v = "app1" /\ r = "sentiment" -> App1SentimentBefore(key, b)
      [] v = "app1" /\ r = "chat"      -> App1ChatBefore(key, b)
      [] v = "main"                   -> MainBefore(key, b)

(***************************************************************************)
(* The outbound call and the handling of the provider's reply.             *)
(***************************************************************************)
\* requests.post: raises ConnectionError when the provider is unreachable
Post(rp) == IF rp.net = "unreachable" THEN Raise("ConnectionError") ELSE Ok(JNull)

\* response.raise_for_status(): HTTPError for 4xx and 5xx
RaiseForStatus(rp) ==
    IF 400 <= rp.status /\ rp.status < 600
    THEN RaiseHttp("HTTPError", rp.status) ELSE Ok(JNull)

\* response.json(): raises jsonErr when the body is not JSON
ResponseJson(rp, jsonErr) == IF rp.json THEN Ok(rp.data) ELSE Raise(jsonErr)

\* response_data['candidates'][0]['content']['parts'][0]['text']
GeminiText(d) ==
    Then(Then(Then(Then(Then(GetKey(d, "candidates"),
        LAMBDA c  : GetIdx(c, 0)),
        LAMBDA c0 : GetKey(c0, "content")),
        LAMBDA ct : GetKey(ct, "parts")),
        LAMBDA ps : GetIdx(ps, 0)),
        LAMBDA p0 : GetKey(p0, "text"))

\* result.get("choices", [{}])[0].get("message", {}).get("content", "")
ChoicesContent(d) ==
    Then(Then(Then(DictGet(d, "choices", JArr(<<JEmptyObj>>)),
        LAMBDA c  : GetIdx(c, 0)),
        LAMBDA c0 : DictGet(c0, "message", JEmptyObj)),
        LAMBDA m  : DictGet(m, "content", JStr(<<>>)))

\* the try block of get_sentiment_route in app.py and app1.py
GeminiSentimentTry(rp, jsonErr) ==
    Then(Post(rp), LAMBDA x :
    Then(RaiseForStatus(rp), LAMBDA y :
    Then(ResponseJson(rp, jsonErr), LAMBDA d :
    Then(Then(GeminiText(d), StrStrip), StrLower))))

\* the except clauses of get_sentiment_route in app.py and app1.py; the
\* (KeyError, IndexError) clause prints response_data (app.py) or
\* response.json() (app1.py), which exists only if the body parsed
GeminiSentimentExcept(r, rp, jsonErr) ==
    IF IsInstance(r.exc, "HTTPError")
    THEN ErrorResp("API request failed with status", r.code)
    ELSE IF IsInstance(r.exc, "KeyError") \/ IsInstance(r.exc, "IndexError")
    THEN IF ResponseJson(rp, jsonErr).ok
         THEN ErrorResp("Invalid response structure from sentiment service", 500)
         ELSE Uncaught(ResponseJson(rp, jsonErr))
    ELSE IF IsInstance(r.exc, "RequestException")
    THEN ErrorResp("Failed to connect to the sentiment analysis service", 500)
    ELSE Uncaught(r)

\* app.py / app1.py get_sentiment_route from the outbound call on
GeminiSentimentAfter(rp, jsonErr) ==
    LET r == GeminiSentimentTry(rp, jsonErr)
    IN  IF r.ok THEN SentimentResp(r.v.s) ELSE GeminiSentimentExcept(r, rp, jsonErr)

\* app1.py continue_chat_route from the outbound call on
App1ChatAfter(rp, jsonErr) ==
    LET r == Then(Post(rp), LAMBDA x :
             Then(RaiseForStatus(rp), LAMBDA y :
             Then(ResponseJson(rp, jsonErr), LAMBDA d :
             Then(GeminiText(d), StrStrip))))
    IN  IF r.ok THEN ChatResp(r.v.s)
        ELSE IF IsInstance(r.exc, "HTTPError")
        THEN ErrorResp("The chat service is currently unavailable.", r.code)
        ELSE IF IsInstance(r.exc, "Exception")
        THEN ErrorResp("An unexpected error occurred.", 500)
        ELSE Uncaught(r)

\* main.py get_sentiment from the outbound call on: no status check, the
\* reply is read from choices[0].message.content, anything else is "happy"
MainAfter(rp, jsonErr) ==
    LET r == Then(Post(rp), LAMBDA x :
             Then(ResponseJson(rp, jsonErr), LAMBDA d :
             Then(Then(ChoicesContent(d), StrStrip), StrLower)))
    IN  IF r.ok
        THEN SentimentResp(IF r.v.s \notin {happy, sad} THEN happy ELSE r.v.s)
        ELSE MainExcept(r)

After(v, r, rp, jsonErr) ==
    CASE v \in {"app", "app1"} /\ r = "sentiment" -> GeminiSentimentAfter(rp, jsonErr)
      [] v = "app1" /\ r = "chat"                 -> App1ChatAfter(rp, jsonErr)
      [] v = "main"                               -> MainAfter(rp, jsonErr)

(***************************************************************************)
(* The inputs: request bodies a client can send, replies the provider can  *)
(* give.                                                                   *)
(***************************************************************************)
MsgGreat == <<"t","h","i","s"," ","i","s"," ","g","r","e","a","t">>
MsgBad == <<"t","h","i","s"," ","i","s"," ","b","a","d">>
MsgGood == <<"S","o"," ","G","O","O","D">>
MsgHello == <<"h","e","l","l","o">>
MsgEmpty == <<>>
TxtHappy == <<"h","a","p","p","y">>
TxtHappyCap == <<"H","a","p","p","y">>
TxtHappyPadded == <<" ","H","A","P","P","Y","\n">>
TxtSad == <<"s","a","d">>
TxtSadCap == <<"S","a","d">>
TxtJoyful == <<"J","o","y","f","u","l">>
TxtSentence == <<"h","a","p","p","y",".">>
TxtEmpty == <<>>
TxtBlank == <<" ","\n">>

Messages == <<MsgGreat, MsgBad, MsgGood, MsgHello, MsgEmpty>>
Texts    == <<TxtHappy, TxtHappyCap, TxtHappyPadded, TxtSad, TxtSadCap,
              TxtJoyful, TxtSentence, TxtEmpty, TxtBlank>>

MessageBody(m) == JObj([message |-> m])

Bodies ==
    <<NotJsonBody, JNull, JEmptyObj, JObj([user |-> JStr(MsgHello)]),
      MessageBody(JNull)>>
    \o [i \in 1..Len(Messages) |-> MessageBody(JStr(Messages[i]))]

\* the provider's reply shape: candidates[0].content.parts[0].text = t
CandidatesReply(t) ==
    JObj([candidates |-> JArr(<<JObj([content |->
        JObj([parts |-> JArr(<<JObj([text |-> t])>>)])])>>)])

\* the reply shape main.py expects: choices[0].message.content = t
ChoicesReply(t) ==
    JObj([choices |-> JArr(<<JObj([message |-> JObj([content |-> t])])>>)])

MalformedReplies ==
    <<JNull, JEmptyObj, JArr(<<>>), JStr(TxtHappy),
      JObj([error |-> JObj([code |-> JStr(<<"4","2","9">>)])]),
      JObj([candidates |-> JNull]),
      JObj([candidates |-> JArr(<<>>)]),
      JObj([candidates |-> JArr(<<JEmptyObj>>)]),
      JObj([candidates |-> JArr(<<JObj([content |-> JNull])>>)]),
      JObj([candidates |-> JArr(<<JObj([content |-> JObj([parts |-> JArr(<<>>)])])>>)]),
      JObj([candidates |-> JArr(<<JObj([content |-> JObj([parts |-> JArr(<<JEmptyObj>>)])])>>)]),
      CandidatesReply(JNull),
      JObj([choices |-> JNull]),
      JObj([choices |-> JArr(<<>>)]),
      ChoicesReply(JNull)>>

ReplyData ==
    MalformedReplies
    \o [i \in 1..Len(Texts) |-> CandidatesReply(JStr(Texts[i]))]
    \o [i \in 1..Len(Texts) |-> ChoicesReply(JStr(Texts[i]))]

Statuses == {200, 201, 304, 400, 429, 503}

\* response.json() on a body that is not JSON raises
\* requests.exceptions.JSONDecodeError (a RequestException) in requests >= 2.27
\* and a plain ValueError in older releases
JsonErrors == {"RequestsJSONDecodeError", "ValueError"}

NoReply     == [net |-> "none",        status |-> 0, json |-> FALSE, data |-> JNull]
Unreachable == [net |-> "unreachable", status |-> 0, json |-> FALSE, data |-> JNull]
JsonReply(st, d) == [net |-> "ok", status |-> st, json |-> TRUE,  data |-> d]
TextReply(st)    == [net |-> "ok", status |-> st, json |-> FALSE, data |-> JNull]

Variants == {"app", "app1", "main"}
Routes(v) == IF v = "app1" THEN {"sentiment", "chat"} ELSE {"sentiment"}

(***************************************************************************)
(* The state machine.                                                      *)
(***************************************************************************)
\* process start: the variant that runs and whether GEMINI_API_KEY is set
Init ==
    /\ variant \in Variants
    /\ hasKey \in BOOLEAN
    /\ route = "sentiment"
    /\ body = JNull
    /\ pc = "idle"
    /\ message = JNull
    /\ reply = NoReply
    /\ resp = NoResp
    /\ calls = 0

\* a POST request arrives on a route of the running variant
Arrive(r, b) ==
    /\ pc \in {"idle", "done"}
    /\ r \in Routes(variant)
    /\ route' = r
    /\ body' = b
    /\ pc' = "recv"
    /\ message' = JNull
    /\ reply' = NoReply
    /\ resp' = NoResp
    /\ calls' = 0
    /\ UNCHANGED <<variant, hasKey>>

\* the handler runs up to the outbound call: it answers or goes on to call
Receive ==
    /\ pc = "recv"
    /\ LET b == Before(variant, route, hasKey, body)
       IN  /\ pc' = IF b.done THEN "done" ELSE "call"
           /\ resp' = b.resp
           /\ message' = b.msg
    /\ UNCHANGED <<variant, hasKey, route, body, reply, calls>>

\* requests.post(...): the one outbound call; the provider decides the reply
ProviderCall(rp) ==
    /\ pc = "call"
    /\ calls' = calls + 1
    /\ reply' = rp
    /\ pc' = "reply"
    /\ UNCHANGED <<variant, hasKey, route, body, message, resp>>

\* a handler that calls the provider again when the call failed
HandleReplyRetry(jsonErr) ==
    /\ pc = "reply"
    /\ LET rsp == After(variant, route, reply, jsonErr)
       IN  IF rsp.status >= 400
           THEN pc' = "call" /\ resp' = resp
           ELSE pc' = "done" /\ resp' = rsp
    /\ UNCHANGED <<variant, hasKey, route, body, message, reply, calls>>

\* the handler turns the outcome of the call into the response
HandleReply(jsonErr) ==
    /\ pc = "reply"
    /\ resp' = After(variant, route, reply, jsonErr)
    /\ pc' = "done"
    /\ UNCHANGED <<variant, hasKey, route, body, message, reply, calls>>

Next ==
    \/ \E r \in {"sentiment", "chat"}, i \in 1..Len(Bodies) : Arrive(r, Bodies[i])
    \/ Receive
    \/ ProviderCall(Unreachable)
    \/ \E st \in Statuses : ProviderCall(TextReply(st))
    \/ \E st \in Statuses, i \in 1..Len(ReplyData) : ProviderCall(JsonReply(st, ReplyData[i]))
    \/ \E e \in JsonErrors : HandleReply(e)

Spec == Init /\ [][Next]_vars

TypeOK ==
    /\ variant \in Variants
    /\ hasKey \in BOOLEAN
    /\ route \in Routes(variant)
    /\ pc \in {"idle", "recv", "call", "reply", "done"}
    /\ calls \in 0..1
    /\ resp.kind \in {"none", "json", "html"}

(***************************************************************************)
(* Vocabulary of the properties.                                           *)
(***************************************************************************)
Done == pc = "done"

\* the request body is an object whose message is a non-empty string
HasNonEmptyMessage ==
    /\ body.t = "obj"
    /\ "message" \in DOMAIN body.o
    /\ body.o.message.t = "str"
    /\ Len(body.o.message.s) > 0

\* the request body is an object without message, or with message ""
EmptyOrMissingMessage ==
    /\ body.t = "obj"
    /\ \/ "message" \notin DOMAIN body.o
       \/ body.o.message.t = "str" /\ Len(body.o.message.s) = 0

\* the request body is an object whose message is a string
HasStringMessage ==
    /\ body.t = "obj"
    /\ "message" \in DOMAIN body.o
    /\ body.o.message.t = "str"

\* the provider was reached and answered with a 2xx status
Replied2xx == reply.net = "ok" /\ reply.status \in 200..299

\* the reply is {"candidates":[{"content":{"parts":[{"text": T}]}}]}
ReplyIsCandidates(T) == reply.json /\ reply.data = CandidatesReply(JStr(T))

\* the response is a 400 produced by the handler's own validation
IsInvalidRequest(rsp) ==
    /\ rsp.kind = "json"
    /\ rsp.status = 400
    /\ rsp.error \in {"Message is required in the request body",
                      "Message is required", "No message provided"}

\* the response body is exactly {"error": <description>}
IsErrorBody(rsp) == rsp.kind = "json" /\ rsp.keys = {"error"}

\* r is T without its leading and trailing whitespace
IsTrimOf(r, T) ==
    /\ \E i \in 0..Len(T) :
          /\ i + Len(r) <= Len(T)
          /\ SubSeq(T, i + 1, i + Len(r)) = r
          /\ \A k \in 1..i : T[k] \in Whitespace
          /\ \A k \in (i + Len(r) + 1)..Len(T) : T[k] \in Whitespace
    /\ Len(r) > 0 => r[1] \notin Whitespace /\ r[Len(r)] \notin Whitespace

HasNonWhitespace(T) == \E k \in 1..Len(T) : T[k] \notin Whitespace

(***************************************************************************)
(* The claims.                                                             *)
(***************************************************************************)
\* C1: a 200 response to a sentiment request with a non-empty message carries
\* a sentiment that is exactly "happy" or "sad", whatever the provider said.
C1_SentimentIsHappyOrSad ==
    (Done /\ route = "sentiment" /\ HasNonEmptyMessage /\ resp.status = 200)
        => (resp.keys = {"sentiment"} /\ resp.sentiment \in {happy, sad})

\* C2: a sentiment request whose message is "" or absent is answered with
\* HTTP 400 and no sentiment label, with and without a credential.
C2_EmptyMessageIs400 ==
    (Done /\ route = "sentiment" /\ EmptyOrMissingMessage)
        => (resp.status = 400 /\ "sentiment" \notin resp.keys)

\* C3: when the provider is unreachable the sentiment response is an error
\* response without any sentiment field.
C3_UnreachableHasNoLabel ==
    (Done /\ route = "sentiment" /\ HasNonEmptyMessage /\ reply.net = "unreachable")
        => (resp.status >= 400 /\ "error" \in resp.keys /\ "sentiment" \notin resp.keys)

\* C4: when the provider rejects the call (a 4xx or 5xx status) the sentiment
\* response is {"error": ...} with the provider's status, never a 200 with a
\* label.
C4_RejectedCarriesProviderStatus ==
    (Done /\ route = "sentiment" /\ HasNonEmptyMessage
          /\ reply.net = "ok" /\ reply.status \in 400..599)
        => (IsErrorBody(resp) /\ resp.status = reply.status)

\* C5: a 2xx provider reply whose JSON lacks the expected text field ends in
\* a response whose body is {"error": ...}; the handler never lets an
\* exception escape.
C5_MalformedDegradesToError ==
    (Done /\ HasNonEmptyMessage /\ Replied2xx /\ reply.json
       /\ ~Then(GeminiText(reply.data), StrStrip).ok)
        => IsErrorBody(resp)

\* C6: offline, a message containing "good" or "great" (in any case) is
\* "happy" and any other message is "sad", in every variant with an offline mode.
C6_OfflineKeywordHeuristic ==
    (Done /\ ~hasKey /\ variant \in {"app", "app1"} /\ route = "sentiment"
          /\ HasStringMessage)
        => /\ resp.status = 200
           /\ resp.keys = {"sentiment"}
           /\ resp.sentiment =
                IF \/ Contains(good, Lower(body.o.message.s))
                   \/ Contains(great, Lower(body.o.message.s))
                THEN happy ELSE sad

\* C7: without a credential no outbound call is made and every request gets
\* a well-formed 200 response (a sentiment label or the chat placeholder).
C7_OfflineAnswersLocally ==
    ~hasKey =>
        /\ calls = 0
        /\ Done => /\ resp.kind = "json" /\ resp.status = 200
                   /\ resp.keys = IF route = "chat" THEN {"response"} ELSE {"sentiment"}

\* C8: a 2xx reply {"candidates":[{"content":{"parts":[{"text": T}]}}]} gives
\* the sentiment T trimmed and lower-cased, in every variant.
C8_CandidatesRoundTrip ==
    \A i \in 1..Len(Texts) :
        (Done /\ route = "sentiment" /\ HasNonEmptyMessage /\ Replied2xx
              /\ ReplyIsCandidates(Texts[i]))
            => /\ resp.status = 200
               /\ resp.keys = {"sentiment"}
               /\ IsTrimOf(resp.sentiment, Lower(Texts[i]))

\* C9 as stated: a 200 chat response to a non-empty message carries a
\* non-empty response string, even when the provider's text is blank.
C9_ChatResponseNonEmpty ==
    (Done /\ route = "chat" /\ HasNonEmptyMessage /\ resp.status = 200)
        => (resp.keys = {"response"} /\ Len(resp.response) > 0)

\* C9 amended: a 200 chat response produced from a provider reply carries the
\* provider's text fragment with its surrounding whitespace removed, so it is
\* non-empty exactly when the fragment has a non-whitespace character.
C9_ChatResponseIsTrimmedText ==
    (Done /\ route = "chat" /\ calls = 1 /\ resp.status = 200)
        => /\ resp.keys = {"response"}
           /\ HasNonEmptyMessage
           /\ reply.net = "ok" /\ reply.status \notin 400..599 /\ reply.json
           /\ \E i \in 1..Len(Texts) :
                 /\ reply.data = CandidatesReply(JStr(Texts[i]))
                 /\ IsTrimOf(resp.response, Texts[i])
                 /\ (Len(resp.response) > 0 <=> HasNonWhitespace(Texts[i]))

\* C9 witness: a blank provider text was answered with 200 and response ""
C9_Witness ==
    /\ Done /\ route = "chat" /\ calls = 1 /\ resp.status = 200
    /\ ReplyIsCandidates(TxtBlank)
    /\ resp.response = <<>>

\* C10: a request makes at most one outbound call (a failed call is not
\* retried), and a 400 for a missing or empty message is produced before
\* any outbound call.
C10_AtMostOneCall ==
    /\ calls <= 1
    /\ pc \in {"reply", "done"} /\ reply.net # "none" => calls = 1
    /\ IsInvalidRequest(resp) => calls = 0 /\ reply.net = "none"

\* C10 witness: the call failed, the error was answered, one call was made
C10_Witness ==
    /\ Done /\ calls = 1
    /\ reply.net = "unreachable"
    /\ resp.status = 500

====
